---- MODULE Spec2Model ----
(***************************************************************************)
(* The rsexcept! macro of src/src/lib.rs (lines 66-89) as a state machine. *)
(*                                                                         *)
(* One frame is one expansion of the macro that is being executed.  The    *)
(* frame walks the statements of the expansion:                            *)
(*                                                                         *)
(*   "take"     line 70   let old_hook = std::panic::take_hook();          *)
(*   "set"      line 71   std::panic::set_hook(Box::new(|_| {}));          *)
(*   "try"      line 72   std::panic::catch_unwind(|| $b)   ($b running)   *)
(*   "match"    line 72   match <result of catch_unwind>                   *)
(*   "restore"  line 75   std::panic::set_hook(old_hook);                  *)
(*   "dispatch" line 77   if let Some($p) = e.downcast_ref::<$t>()         *)
(*   "handler"  line 78   $handler                                         *)
(*   "exit"     line 87   control leaves the block, with a value or by     *)
(*                        unwinding                                        *)
(*                                                                         *)
(* What std::panic does is modelled from its documented behaviour:         *)
(* take_hook unregisters the current hook and leaves the default one,      *)
(* panic_any / panic! invoke the installed hook on the panicking thread    *)
(* and then unwind, resume_unwind unwinds without invoking the hook.       *)
(***************************************************************************)
EXTENDS Naturals, Sequences, FiniteSets

\* Bounds of the model: the longest catch block, the deepest nesting.
MaxChain == 2
MaxDepth == 2
\* Top-level expansions one thread evaluates one after the other.
MaxRuns == 2

VARIABLES
    hook,      \* the process-wide panic hook
    program,   \* the program around the macro: how many top-level expansions a
               \* thread evaluates in sequence, how deep expansions nest, how
               \* long its catch blocks are, the types it names and raises,
               \* the values it computes, and the hook installed when it starts
    live,      \* the threads the program runs the construct on
    stack,     \* per thread: the frames of the expansions being executed
    outcome,   \* per thread: how its last top-level expansion ended
    runs,      \* per thread: number of top-level expansions begun
    reported   \* per thread: the last hook invocation for a panic raised on it

vars == <<hook, program, live, stack, outcome, runs, reported>>

Threads == {"main", "other"}

\* Dynamic types of panic payloads / declared types of catch arms ($t).
Types == {"i32", "f64", "ref_f64"}

\* Values of payloads and of the block's result type.  A pattern tells a value
\* from the others only by comparing it with a literal.
Values == {0, 1}

\* A panic payload: Box<dyn Any + Send>, a value with its dynamic type.
Payloads == [ty : Types, val : Values]

\* Patterns ($p): `_` or an identifier accepts every value, a literal one value.
Patterns == [kind : {"wild"}, lit : {0}] \cup [kind : {"lit"}, lit : Values]

\* One catch arm `$t, $p => $handler`; the handler body is a computation whose
\* outcome is drawn when it runs.
Arms == [ty : Types, pat : Patterns]

RECURSIVE SeqsUpTo(_, _)
SeqsUpTo(S, n) ==
    IF n = 0 THEN {<<>>}
    ELSE LET shorter == SeqsUpTo(S, n - 1)
         IN  shorter \cup {Append(s, x) : s \in {q \in shorter : Len(q) = n - 1}, x \in S}

\* The catch blocks: `$( $t:ty, $p:pat => $handler:expr),*`, possibly empty.
Chains == SeqsUpTo(Arms, MaxChain)

\* The catch blocks, the payloads and the values of a program.
ChainsOf(prog) ==
    {c \in Chains : Len(c) <= prog.arms /\ \A j \in DOMAIN c : c[j].ty \in prog.types}
PayloadsOf(prog) == {p \in Payloads : p.ty \in prog.types /\ p.val \in prog.values}

\* Hooks.  The closure `|_| {}` of each expansion is a hook of its own.
DefaultHook == [kind |-> "default", t |-> "-", r |-> 0, d |-> 0]
UserHook == [kind |-> "user", t |-> "-", r |-> 0, d |-> 0]
NoopHook(t, r, d) == [kind |-> "noop", t |-> t, r |-> r, d |-> d]

\* Results: of catch_unwind, of a handler body, of the whole block.
NoRes == [kind |-> "None", ty |-> "-", val |-> 0]
Ok(v) == [kind |-> "Ok", ty |-> "-", val |-> v]
Err(p) == [kind |-> "Err", ty |-> p.ty, val |-> p.val]
PayloadOf(r) == [ty |-> r.ty, val |-> r.val]

\* What a frame keeps of the expansion that was its protected computation: the
\* path it left by, what its own protected computation ended with, and what its
\* handler ended with.
NoInner == [path |-> "-", res |-> NoRes, handler |-> NoRes]

\* No hook invocation yet.
NoReport == [hook |-> DefaultHook, pay |-> NoRes]

\* The frame of an expansion that has just been entered.  pre_hook is the hook
\* installed when control reaches the expansion; ran lists the executions of
\* handler bodies of this expansion; restores counts its set_hook(old_hook).
NewFrame(h) ==
    [pc |-> "take", pre_hook |-> h, old_hook |-> DefaultHook, res |-> NoRes,
     inner |-> NoInner, chain |-> <<>>, idx |-> 0, bound |-> 0, ran |-> <<>>,
     restores |-> 0, path |-> "-", out |-> NoRes]

Depth(t) == Len(stack[t])
Top(t) == stack[t][Len(stack[t])]
SetTop(t, f) == [stack EXCEPT ![t] = [@ EXCEPT ![Len(@)] = f]]
At(t, pc) == t \in live /\ stack[t] # <<>> /\ Top(t).pc = pc

Init ==
    /\ hook \in {DefaultHook, UserHook}
    /\ program = [runs |-> 1, depth |-> MaxDepth, arms |-> MaxChain,
                  types |-> Types, values |-> Values, hook |-> hook]
    /\ live = {"main"}
    /\ stack = [t \in Threads |-> <<>>]
    /\ outcome = [t \in Threads |-> NoRes]
    /\ runs = [t \in Threads |-> 0]
    /\ reported = [t \in Threads |-> NoReport]

\* A thread reaches a top-level rsexcept! expression.
Begin(t) ==
    /\ t \in live /\ stack[t] = <<>> /\ runs[t] < program.runs
    /\ stack' = [stack EXCEPT ![t] = <<NewFrame(hook)>>]
    /\ runs' = [runs EXCEPT ![t] = @ + 1]
    /\ outcome' = [outcome EXCEPT ![t] = NoRes]
    /\ UNCHANGED <<hook, program, live, reported>>

\* line 70: let old_hook = std::panic::take_hook();
TakeHook(t) ==
    /\ At(t, "take")
    /\ stack' = SetTop(t, [Top(t) EXCEPT !.old_hook = hook, !.pc = "set"])
    /\ hook' = DefaultHook
    /\ UNCHANGED <<program, live, outcome, runs, reported>>

\* Mutant of SetNoop: no hook is installed in place of the one taken.
SetNoopMissing(t) ==
    /\ At(t, "set")
    /\ stack' = SetTop(t, [Top(t) EXCEPT !.pc = "try"])
    /\ UNCHANGED <<hook, program, live, outcome, runs, reported>>

\* line 71: std::panic::set_hook(Box::new(|_| {}));
SetNoop(t) ==
    /\ At(t, "set")
    /\ hook' = NoopHook(t, runs[t], Depth(t))
    /\ stack' = SetTop(t, [Top(t) EXCEPT !.pc = "try"])
    /\ UNCHANGED <<program, live, outcome, runs, reported>>

\* panic_any(p) / panic!(..): the installed hook is invoked on the panicking
\* thread with the payload, before unwinding starts.
InvokeHook(t, p) == [reported EXCEPT ![t] = [hook |-> hook, pay |-> Err(p)]]

\* line 72: the block $b completes with value v, catch_unwind returns Ok(v).
TryReturns(t, v) ==
    /\ At(t, "try")
    /\ v \in program.values
    /\ stack' = SetTop(t, [Top(t) EXCEPT !.res = Ok(v), !.pc = "match"])
    /\ UNCHANGED <<hook, program, live, outcome, runs, reported>>

\* line 72: the block $b panics with payload p: the hook is invoked, the unwind
\* is caught by catch_unwind, which returns Err(p).
TryPanics(t, p) ==
    /\ At(t, "try")
    /\ p \in PayloadsOf(program)
    /\ reported' = InvokeHook(t, p)
    /\ stack' = SetTop(t, [Top(t) EXCEPT !.res = Err(p), !.pc = "match"])
    /\ UNCHANGED <<hook, program, live, outcome, runs>>

\* line 72: the block $b is itself an rsexcept! expression (tests::panic_propagate,
\* lines 216-228): a frame is entered inside this frame's catch_unwind.
TryNested(t) ==
    /\ At(t, "try")
    /\ Depth(t) < program.depth
    /\ stack' = [stack EXCEPT ![t] = Append(@, NewFrame(hook))]
    /\ UNCHANGED <<hook, program, live, outcome, runs, reported>>

\* Mutant of OkArm: the Ok arm yields a fixed value instead of v.
OkArmDefault(f) == Ok(0)

\* line 73: Ok(v) => v
OkArm(f) == f.res

\* lines 72-73: the match takes the Ok arm; the catch arms of the expansion,
\* whatever they are, are not looked at.
MatchOk(t) ==
    /\ At(t, "match")
    /\ Top(t).res.kind = "Ok"
    /\ \E chain \in ChainsOf(program) :
         stack' = SetTop(t, [Top(t) EXCEPT !.chain = chain, !.path = "ok",
                                           !.out = OkArm(Top(t)), !.pc = "exit"])
    /\ UNCHANGED <<hook, program, live, outcome, runs, reported>>

\* Mutant of MatchErr: set_hook(old_hook) is not the first statement of the Err
\* arm; the arms are tried right away.
MatchErrDispatchFirst(t) ==
    /\ At(t, "match")
    /\ Top(t).res.kind = "Err"
    /\ \E chain \in ChainsOf(program) :
         stack' = SetTop(t, [Top(t) EXCEPT !.chain = chain, !.idx = 1,
                                           !.pc = "dispatch"])
    /\ UNCHANGED <<hook, program, live, outcome, runs, reported>>

\* lines 72, 74: the match takes the Err(e) arm, whose body is the catch arms
\* of the expansion.
MatchErr(t) ==
    /\ At(t, "match")
    /\ Top(t).res.kind = "Err"
    /\ \E chain \in ChainsOf(program) :
         stack' = SetTop(t, [Top(t) EXCEPT !.chain = chain, !.pc = "restore"])
    /\ UNCHANGED <<hook, program, live, outcome, runs, reported>>

\* Mutant of Restored: the Err arm installs the default hook, not the saved one.
RestoredDefault(f) == DefaultHook

\* Mutant of Restored: the Err arm leaves the installed hook as it is.
RestoredNothing(f) == hook

\* line 75: the hook that set_hook(old_hook) installs.
Restored(f) == f.old_hook

\* Mutant of Restore: the statement is missing from the Err arm.
RestoreDeferred(t) ==
    /\ At(t, "restore")
    /\ stack' = SetTop(t, [Top(t) EXCEPT !.idx = 1, !.pc = "dispatch"])
    /\ UNCHANGED <<hook, program, live, outcome, runs, reported>>

\* line 75: std::panic::set_hook(old_hook);
Restore(t) ==
    /\ At(t, "restore")
    /\ hook' = Restored(Top(t))
    /\ stack' = SetTop(t, [Top(t) EXCEPT !.idx = 1, !.restores = @ + 1,
                                          !.pc = "dispatch"])
    /\ UNCHANGED <<program, live, outcome, runs, reported>>

\* Mutant of Downcast: a float payload is also taken for a reference to a float,
\* and the reverse.
DowncastCoerces(e, ty) ==
    IF e.ty = ty \/ {e.ty, ty} = {"f64", "ref_f64"} THEN <<e.val>> ELSE <<>>

\* line 77: e.downcast_ref::<$t>() is Some(&value) when the payload's dynamic
\* type is $t, None otherwise.  Some(x) is <<x>>, None is <<>>.
Downcast(e, ty) == IF e.ty = ty THEN <<e.val>> ELSE <<>>

\* line 77: whether pattern $p matches the narrowed value.
PatMatches(pat, v) == pat.kind = "wild" \/ pat.lit = v

\* Mutant of ArmAccepts: an arm with a catch-all pattern gives way to the more
\* specific arms.
ArmAcceptsLiteralOnly(arm, e) ==
    LET d == Downcast(e, arm.ty)
    IN  d # <<>> /\ arm.pat.kind = "lit" /\ arm.pat.lit = d[1]

\* line 77: if let Some($p) = e.downcast_ref::<$t>()
ArmAccepts(arm, e) ==
    LET d == Downcast(e, arm.ty)
    IN  d # <<>> /\ PatMatches(arm.pat, d[1])

\* Mutant of ElseArm: a rejecting arm is tried again.
ElseArmStuck(f) == f.idx

\* Mutant of ElseArm: a rejecting arm ends the dispatch.
ElseArmEnds(f) == Len(f.chain) + 1

\* lines 80-81: `else` leads to the `if let` of the following arm.
ElseArm(f) == f.idx + 1

\* lines 77, 80: the arm at idx does not accept the payload.
ArmSkip(t) ==
    /\ At(t, "dispatch")
    /\ Top(t).idx <= Len(Top(t).chain)
    /\ ~ArmAccepts(Top(t).chain[Top(t).idx], Top(t).res)
    /\ stack' = SetTop(t, [Top(t) EXCEPT !.idx = ElseArm(Top(t))])
    /\ UNCHANGED <<hook, program, live, outcome, runs, reported>>

\* lines 77-78: the arm at idx accepts the payload; its bindings are made and
\* control enters $handler.
ArmMatch(t) ==
    /\ At(t, "dispatch")
    /\ Top(t).idx <= Len(Top(t).chain)
    /\ ArmAccepts(Top(t).chain[Top(t).idx], Top(t).res)
    /\ stack' = SetTop(t, [Top(t) EXCEPT
                    !.bound = Downcast(Top(t).res, Top(t).chain[Top(t).idx].ty)[1],
                    !.pc = "handler"])
    /\ UNCHANGED <<hook, program, live, outcome, runs, reported>>

\* line 78: one more execution of a handler body of frame f, ending with r.
Ran(f, r) == Append(f.ran, [idx |-> f.idx, bound |-> f.bound, out |-> r])

\* Mutant of HandlerReturns: without the `else`, control goes on to the arms
\* that follow the handler.
HandlerReturnsFallsThrough(t, v) ==
    /\ At(t, "handler")
    /\ v \in program.values
    /\ stack' = SetTop(t, [Top(t) EXCEPT !.ran = Ran(Top(t), Ok(v)), !.out = Ok(v),
                                          !.idx = @ + 1, !.pc = "dispatch"])
    /\ UNCHANGED <<hook, program, live, outcome, runs, reported>>

\* line 78: $handler completes with value v, the value of the block.
HandlerReturns(t, v) ==
    /\ At(t, "handler")
    /\ v \in program.values
    /\ stack' = SetTop(t, [Top(t) EXCEPT !.ran = Ran(Top(t), Ok(v)), !.out = Ok(v),
                                          !.path = "handled", !.pc = "exit"])
    /\ UNCHANGED <<hook, program, live, outcome, runs, reported>>

\* Mutant of HandlerPanics: the handler runs under the expansion's protection
\* and its payload is dispatched against the arms again.
HandlerPanicsRecaught(t, q) ==
    /\ At(t, "handler")
    /\ q \in PayloadsOf(program)
    /\ reported' = InvokeHook(t, q)
    /\ stack' = SetTop(t, [Top(t) EXCEPT !.ran = Ran(Top(t), Err(q)), !.res = Err(q),
                                          !.idx = 1, !.pc = "dispatch"])
    /\ UNCHANGED <<hook, program, live, outcome, runs>>

\* Mutant of HandlerPanics: the unwind that leaves the block carries the payload
\* the handler responded to.
HandlerPanicsOriginal(t, q) ==
    /\ At(t, "handler")
    /\ q \in PayloadsOf(program)
    /\ reported' = InvokeHook(t, q)
    /\ stack' = SetTop(t, [Top(t) EXCEPT !.ran = Ran(Top(t), Err(q)),
                                          !.out = Top(t).res,
                                          !.path = "handler_abort", !.pc = "exit"])
    /\ UNCHANGED <<hook, program, live, outcome, runs>>

\* line 78: $handler panics with payload q: the hook is invoked and the unwind
\* leaves the block (no catch_unwind of this expansion is on the stack).
HandlerPanics(t, q) ==
    /\ At(t, "handler")
    /\ q \in PayloadsOf(program)
    /\ reported' = InvokeHook(t, q)
    /\ stack' = SetTop(t, [Top(t) EXCEPT !.ran = Ran(Top(t), Err(q)), !.out = Err(q),
                                          !.path = "handler_abort", !.pc = "exit"])
    /\ UNCHANGED <<hook, program, live, outcome, runs>>

\* Mutant of Resumed: the unwind is restarted with a payload of its own.
ResumedFresh(f) == Err([ty |-> "i32", val |-> 0])

\* line 83: the payload that resume_unwind(e) unwinds with.
Resumed(f) == f.res

\* lines 82-84: no arm is left: resume_unwind(e) unwinds out of the block
\* without invoking the hook.
ResumeUnwind(t) ==
    /\ At(t, "dispatch")
    /\ Top(t).idx > Len(Top(t).chain)
    /\ stack' = SetTop(t, [Top(t) EXCEPT !.out = Resumed(Top(t)),
                                          !.path = "propagated", !.pc = "exit"])
    /\ UNCHANGED <<hook, program, live, outcome, runs, reported>>

\* What the enclosing frame keeps of frame f when f is left.
Summary(f) ==
    [path |-> f.path, res |-> f.res,
     handler |-> IF f.ran = <<>> THEN NoRes ELSE f.ran[Len(f.ran)].out]

\* line 87: control leaves the block.  Inside an enclosing expansion's
\* catch_unwind the value or the unwind becomes that catch_unwind's result;
\* otherwise it reaches the caller of the top-level expansion.
Exit(t) ==
    /\ At(t, "exit")
    /\ IF Depth(t) > 1
       THEN /\ stack' = [stack EXCEPT ![t] =
                    [i \in 1..(Len(@) - 1) |->
                        IF i = Len(@) - 1
                        THEN [@[i] EXCEPT !.res = Top(t).out, !.pc = "match",
                                          !.inner = Summary(Top(t))]
                        ELSE @[i]]]
            /\ UNCHANGED outcome
       ELSE /\ stack' = [stack EXCEPT ![t] = <<>>]
            /\ outcome' = [outcome EXCEPT ![t] = Top(t).out]
    /\ UNCHANGED <<hook, program, live, runs, reported>>

Next ==
    \E t \in Threads :
        \/ Begin(t)
        \/ TakeHook(t)
        \/ SetNoop(t)
        \/ \E v \in Values : TryReturns(t, v)
        \/ \E p \in Payloads : TryPanics(t, p)
        \/ TryNested(t)
        \/ MatchOk(t)
        \/ MatchErr(t)
        \/ Restore(t)
        \/ ArmSkip(t)
        \/ ArmMatch(t)
        \/ \E v \in Values : HandlerReturns(t, v)
        \/ \E q \in Payloads : HandlerPanics(t, q)
        \/ ResumeUnwind(t)
        \/ Exit(t)

Spec == Init /\ [][Next]_vars

\* Two threads, each evaluating one expansion that is not nested, with no
\* synchronization between them: the hook is the one thing they share.
InitMT ==
    /\ hook \in {DefaultHook, UserHook}
    /\ program = [runs |-> 1, depth |-> 1, arms |-> 1,
                  types |-> {"i32"}, values |-> Values, hook |-> hook]
    /\ live = Threads
    /\ stack = [t \in Threads |-> <<>>]
    /\ outcome = [t \in Threads |-> NoRes]
    /\ runs = [t \in Threads |-> 0]
    /\ reported = [t \in Threads |-> NoReport]

\* The steps of expansions that are not nested.
NextFlat ==
    \E t \in Threads :
        \/ Begin(t)
        \/ TakeHook(t)
        \/ SetNoop(t)
        \/ \E v \in Values : TryReturns(t, v)
        \/ \E p \in Payloads : TryPanics(t, p)
        \/ MatchOk(t)
        \/ MatchErr(t)
        \/ Restore(t)
        \/ ArmSkip(t)
        \/ ArmMatch(t)
        \/ \E v \in Values : HandlerReturns(t, v)
        \/ \E q \in Payloads : HandlerPanics(t, q)
        \/ ResumeUnwind(t)
        \/ Exit(t)

SpecMT == InitMT /\ [][NextFlat]_vars

\* One thread evaluating top-level expansions one after the other, none of
\* them nested (the tests of lines 95-213 run in sequence on one thread).
InitSeq ==
    /\ hook \in {DefaultHook, UserHook}
    /\ program = [runs |-> MaxRuns, depth |-> 1, arms |-> MaxChain,
                  types |-> Types, values |-> Values, hook |-> hook]
    /\ live = {"main"}
    /\ stack = [t \in Threads |-> <<>>]
    /\ outcome = [t \in Threads |-> NoRes]
    /\ runs = [t \in Threads |-> 0]
    /\ reported = [t \in Threads |-> NoReport]

SpecSeq == InitSeq /\ [][NextFlat]_vars

\* The construct is synchronous code: a thread that can take a step takes one;
\* the block $b and the handler bodies end, by a value or by a panic.
SpecFair == Spec /\ WF_vars(Next)

(***************************************************************************)
(* Vocabulary of the properties.  These are stated from the payload and    *)
(* the catch arms alone, not through the operators of the model above.     *)
(***************************************************************************)

\* The top frame of thread t has left its block (by value or by unwinding).
Exited(t) == At(t, "exit")

\* The protected computation of t's top frame completed / aborted.
BodyOk(t) == Top(t).res.kind = "Ok"
BodyErr(t) == Top(t).res.kind = "Err"

\* Arm `arm` accepts payload p: same type, and the pattern takes the value.
Accepts(arm, p) == arm.ty = p.ty /\ (arm.pat.kind = "wild" \/ arm.pat.lit = p.val)
Accepting(chain, p) == {j \in DOMAIN chain : Accepts(chain[j], p)}
Least(S) == CHOOSE j \in S : \A k \in S : j <= k

\* C1: when the protected computation completes normally with value v, then
\* whatever the catch arms are the block's value is v and no handler body of
\* the expansion has been executed.
C1_PassthroughResult ==
    \A t \in live :
        (stack[t] # <<>> /\ BodyOk(t)) =>
            /\ Top(t).ran = <<>>
            /\ Exited(t) => Top(t).out = Top(t).res

C1_Witness ==
    \E t \in live :
        /\ Exited(t) /\ BodyOk(t)
        /\ Len(Top(t).chain) = 2
        /\ \A j \in DOMAIN Top(t).chain : Top(t).chain[j].pat.kind = "wild"
        /\ Top(t).out.val = 1

\* C2: after an expansion whose protected computation completed normally, the
\* process-wide hook is the hook that was installed right before the expansion
\* began.
C2_HookRestoredAfterOk ==
    \A t \in live :
        (Exited(t) /\ BodyOk(t)) => hook = Top(t).pre_hook

\* C3: when the protected computation aborts with payload p, the handler that
\* runs is the one of the first arm, in declaration order, whose type is p's
\* type and whose pattern accepts p, whatever later arms would accept p; the
\* block's value is the value of that handler.
C3_FirstMatchWins ==
    \A t \in live :
        (Exited(t) /\ BodyErr(t)) =>
            LET f == Top(t)
                p == PayloadOf(f.res)
            IN  \A i \in DOMAIN f.ran :
                    /\ Accepting(f.chain, p) # {}
                    /\ f.ran[i].idx = Least(Accepting(f.chain, p))
                    /\ f.out = f.ran[i].out

C3_Witness ==
    \E t \in live :
        /\ Exited(t) /\ BodyErr(t)
        /\ Top(t).path = "handled"
        /\ Len(Top(t).chain) = 2
        /\ Top(t).chain[1].pat.kind = "wild"
        /\ Top(t).chain[2].pat.kind = "lit"
        /\ Accepting(Top(t).chain, PayloadOf(Top(t).res)) = {1, 2}
        /\ \E i \in DOMAIN Top(t).ran : Top(t).ran[i].idx = 1

\* C4: an arm whose type is the payload's type but whose pattern rejects the
\* value is not selected and does not end the dispatch: when a later arm accepts
\* the payload, a handler runs, and it is the handler of an accepting arm.
C4_StructuralRefinement ==
    \A t \in live :
        (Exited(t) /\ BodyErr(t)) =>
            LET f == Top(t)
                p == PayloadOf(f.res)
                rejecting == {j \in DOMAIN f.chain :
                                 f.chain[j].ty = p.ty /\ ~Accepts(f.chain[j], p)}
            IN  \A j \in rejecting :
                    /\ \A i \in DOMAIN f.ran : f.ran[i].idx # j
                    /\ (\E k \in Accepting(f.chain, p) : k > j) =>
                           /\ f.path # "propagated"
                           /\ \E i \in DOMAIN f.ran :
                                  f.ran[i].idx \in Accepting(f.chain, p)

C4_Witness ==
    \E t \in live :
        /\ Exited(t) /\ BodyErr(t)
        /\ Top(t).path = "handled"
        /\ Len(Top(t).chain) = 2
        /\ Top(t).chain[1].ty = Top(t).res.ty
        /\ Top(t).chain[2].ty = Top(t).res.ty
        /\ Accepting(Top(t).chain, PayloadOf(Top(t).res)) = {2}
        /\ \E i \in DOMAIN Top(t).ran : Top(t).ran[i].idx = 2

\* C5: when the protected computation aborts with a payload that no arm
\* accepts (in particular when there is no arm), the block yields no value, no
\* handler body runs, and the unwind that leaves the block carries the payload
\* that was raised, with its type.
C5_UnmatchedPropagation ==
    \A t \in live :
        (Exited(t) /\ BodyErr(t) /\ Accepting(Top(t).chain, PayloadOf(Top(t).res)) = {}) =>
            /\ Top(t).out.kind = "Err"
            /\ PayloadOf(Top(t).out) = PayloadOf(Top(t).res)
            /\ Top(t).ran = <<>>

C5_Witness ==
    \E t \in live :
        /\ Exited(t) /\ BodyErr(t)
        /\ Accepting(Top(t).chain, PayloadOf(Top(t).res)) = {}
        /\ Len(Top(t).chain) = 2
        /\ Top(t).chain[1].ty = Top(t).res.ty
        /\ Top(t).chain[2].ty # Top(t).res.ty
        /\ Top(t).res.val = 1

\* C6: when the handler that ran aborted with payload q, no other arm of the
\* chain is tried or run, even one that accepts q; the block yields no value and
\* the unwind that leaves it carries q.
C6_HandlerAbortNotRecaught ==
    \A t \in live :
        stack[t] # <<>> =>
            \A i \in DOMAIN Top(t).ran :
                Top(t).ran[i].out.kind = "Err" =>
                    /\ Exited(t)
                    /\ DOMAIN Top(t).ran = {i}
                    /\ Top(t).idx = Top(t).ran[i].idx
                    /\ Top(t).out = Top(t).ran[i].out

C6_Witness ==
    \E t \in live :
        /\ Exited(t) /\ BodyErr(t)
        /\ Top(t).out.kind = "Err"
        /\ Top(t).out # Top(t).res
        /\ \E i \in DOMAIN Top(t).ran : Top(t).ran[i].idx = 1
        /\ Accepting(Top(t).chain, PayloadOf(Top(t).res)) = {1}
        /\ Accepting(Top(t).chain, PayloadOf(Top(t).out)) = {2}

\* C7: when an expansion runs inside the protected computation of an outer one
\* and the inner handler aborts with payload q, the outer expansion captures
\* that abort and dispatches q against the outer arms: if an outer arm accepts
\* q, the handler of the first such arm runs with q's value and, when it
\* returns, its value is the outer block's value; otherwise q leaves the outer
\* block.
C7_NestedProtection ==
    \A t \in live :
        (stack[t] # <<>> /\ Top(t).inner.handler.kind = "Err") =>
            LET f == Top(t)
                q == PayloadOf(f.inner.handler)
            IN  /\ f.res = f.inner.handler
                /\ Exited(t) =>
                     IF Accepting(f.chain, q) = {}
                     THEN f.path = "propagated" /\ f.out = f.inner.handler
                     ELSE \E k \in DOMAIN f.ran :
                             /\ f.ran[k].idx = Least(Accepting(f.chain, q))
                             /\ f.ran[k].bound = q.val
                             /\ f.out = f.ran[k].out

C7_Witness ==
    \E t \in live :
        /\ Exited(t) /\ Depth(t) = 1
        /\ Top(t).path = "handled"
        /\ Top(t).inner.path = "handler_abort"
        /\ Top(t).inner.res # Top(t).inner.handler
        /\ Top(t).res = Top(t).inner.handler
        /\ Accepts(Top(t).chain[1], PayloadOf(Top(t).inner.res))
        /\ \E k \in DOMAIN Top(t).ran : Top(t).ran[k].idx = 2

\* C8: on each exit path that begins with an abort of the protected computation
\* (handled, propagated, handler aborted), once control has left the block the
\* process-wide hook is the hook that was installed right before the expansion,
\* and not the no-op this expansion installed.
C8_HookRestoredOnAbortPaths ==
    \A t \in live :
        (Exited(t) /\ BodyErr(t)) =>
            /\ Top(t).path \in {"handled", "propagated", "handler_abort"}
            /\ hook = Top(t).pre_hook
            /\ hook # NoopHook(t, runs[t], Depth(t))

C8_Witness ==
    \E t \in live :
        /\ Exited(t) /\ BodyErr(t)
        /\ Top(t).path = "handler_abort"
        /\ Depth(t) = 1
        /\ hook = UserHook
        /\ Top(t).inner.path = "propagated"

\* C9: in one expansion at most one handler body is executed, at most once;
\* when exactly one arm accepts the payload, the handler of that arm runs
\* exactly once, with the payload's value bound, and a value it returns is the
\* block's value.
C9_SingleMatch ==
    \A t \in live :
        /\ \A d \in DOMAIN stack[t] : Len(stack[t][d].ran) <= 1
        /\ (Exited(t) /\ BodyErr(t)) =>
               LET f == Top(t)
                   p == PayloadOf(f.res)
               IN  \A j \in DOMAIN f.chain :
                       Accepting(f.chain, p) = {j} =>
                           /\ Len(f.ran) = 1
                           /\ f.ran[1].idx = j
                           /\ f.ran[1].bound = p.val
                           /\ f.out = f.ran[1].out

C9_Witness ==
    \E t \in live :
        /\ Exited(t) /\ BodyErr(t)
        /\ Top(t).path = "handled"
        /\ Accepting(Top(t).chain, PayloadOf(Top(t).res)) = {2}
        /\ Top(t).chain[2].pat.kind = "wild"
        /\ Top(t).res.val = 1
        /\ Top(t).ran = <<[idx |-> 2, bound |-> 1, out |-> Ok(0)]>>

\* C10: an abort of the protected computation that no arm accepts and that
\* leaves an expansion with no enclosing one carries the payload that was
\* raised, and has been reported by the hook that was installed before the
\* expansion ran.
C10_EscapingAbortReported ==
    \A t \in live :
        (Exited(t) /\ Depth(t) = 1 /\ BodyErr(t) /\ Top(t).path = "propagated") =>
            /\ Top(t).out = Top(t).res
            /\ reported[t] = [hook |-> Top(t).pre_hook, pay |-> Top(t).res]

\* C11: an arm is never selected when its declared type differs from the
\* payload's dynamic type, whatever its pattern and however close the two types
\* are: a `reference to float` arm is skipped for a float payload.
C11_ExactTypeIdentity ==
    \A t \in live :
        stack[t] # <<>> =>
            LET f == Top(t)
            IN  /\ f.pc = "handler" => f.chain[f.idx].ty = f.res.ty
                /\ \A i \in DOMAIN f.ran : f.chain[f.ran[i].idx].ty = f.res.ty

C11_Witness ==
    \E t \in live :
        /\ Exited(t) /\ BodyErr(t)
        /\ Top(t).res.ty = "f64"
        /\ Len(Top(t).chain) = 2
        /\ Top(t).chain[1] = [ty |-> "ref_f64", pat |-> [kind |-> "wild", lit |-> 0]]
        /\ Top(t).chain[2].ty = "f64"
        /\ \E i \in DOMAIN Top(t).ran : Top(t).ran[i].idx = 2

\* The no-op hook that the top frame of thread t installed.
OwnNoop(t) == NoopHook(t, runs[t], Depth(t))

\* C12: whenever a matched handler body starts executing, the saved hook of the
\* expansion has been reinstalled, so a panic of the handler body is reported
\* through that hook, not through the no-op the expansion installed.
C12_RestoreBeforeHandler ==
    \A t \in live :
        stack[t] # <<>> =>
            LET f == Top(t)
            IN  /\ f.pc = "handler" =>
                     /\ f.restores = 1
                     /\ hook = f.old_hook
                     /\ hook # OwnNoop(t)
                /\ \A i \in DOMAIN f.ran :
                       f.ran[i].out.kind = "Err" =>
                           /\ reported[t] = [hook |-> f.old_hook, pay |-> f.ran[i].out]
                           /\ reported[t].hook # OwnNoop(t)

C12_Witness ==
    \E t \in live :
        /\ Exited(t) /\ Top(t).path = "handler_abort"
        /\ Depth(t) = 1
        /\ Top(t).out # Top(t).res
        /\ reported[t] = [hook |-> UserHook, pay |-> Top(t).out]

\* C13: whenever the expansion re-raises an unmatched payload, its saved hook
\* has been reinstalled: resume_unwind never runs while the no-op installed by
\* the expansion is the process-wide hook.
C13_RestoreBeforePropagation ==
    \A t \in live :
        stack[t] # <<>> =>
            LET f == Top(t)
            IN  (f.pc = "dispatch" \/ (f.pc = "exit" /\ f.path = "propagated")) =>
                    /\ f.restores = 1
                    /\ hook = f.old_hook
                    /\ hook # OwnNoop(t)

C13_Witness ==
    \E t \in live :
        /\ Exited(t) /\ Top(t).path = "propagated"
        /\ Depth(t) = 1
        /\ Len(Top(t).chain) = 2
        /\ hook = UserHook

\* C14: in every expansion, on every exit path, the saved hook is reinstalled
\* exactly once for the one suppression at entry: never twice, never skipped.
C14_RestoreExactlyOnce ==
    \A t \in live :
        /\ \A d \in DOMAIN stack[t] : stack[t][d].restores <= 1
        /\ Exited(t) => Top(t).restores = 1

Settled(f) ==
    IF f.res.kind = "Ok"
    THEN f.ran = <<>> /\ f.out = f.res
    ELSE \/ Len(f.ran) = 1 /\ f.out = f.ran[1].out
            /\ f.path \in {"handled", "handler_abort"}
         \/ f.ran = <<>> /\ f.out = f.res /\ f.path = "propagated"

\* C16: when the protected computation and the handler bodies end, every
\* expansion ends, and every abort of a protected computation ends up either
\* consumed by exactly one handler or re-raised to what encloses the expansion:
\* never both, and never dropped for a value nobody produced.
C16_NoLeakedAbort ==
    /\ [](\A t \in live : Exited(t) => Settled(Top(t)))
    /\ \A t \in Threads : (stack[t] # <<>>) ~> (stack[t] = <<>>)
    /\ \A t \in Threads :
           (At(t, "match") /\ BodyErr(t)) ~>
               (Exited(t) /\ BodyErr(t) /\ Settled(Top(t)))

C16_Witness ==
    \E t \in live :
        /\ Exited(t) /\ Depth(t) = 1
        /\ Top(t).inner.path = "propagated"
        /\ Top(t).path = "propagated"
        /\ Len(Top(t).chain) = 2
        /\ Top(t).out = Top(t).inner.res

\* The threads other than t that use the construct.
Others(t) == live \ {t}

\* The top frame of t has left its block on one of the abort paths.
ExitedOnAbort(t) == Exited(t) /\ BodyErr(t)

\* C17: two threads, one expansion each, no synchronization.  What the race
\* on the hook can do is bounded as follows: the hook an expansion saves is the
\* program's hook, the default hook another thread's take_hook left behind, or
\* another thread's silent no-op; once all threads have left on abort paths
\* the hook is the one some thread saved; and a thread whose expansion is not
\* overlapped by another thread's leaves the hook it found.  Inside these
\* bounds the race happens (C17_Witness): a handler abort is reported to the
\* other thread's no-op, and the hook the two expansions leave is not the
\* program's hook.
C17_HookRace ==
    /\ \A t \in live :
           (stack[t] # <<>> /\ Top(t).pc # "take") =>
               Top(t).old_hook \in {program.hook, DefaultHook}
                                    \cup {NoopHook(u, 1, 1) : u \in Others(t)}
    /\ (\A t \in live : ExitedOnAbort(t)) =>
           \E t \in live : hook = Top(t).old_hook
    /\ \A t \in live :
           (ExitedOnAbort(t) /\ \A u \in Others(t) : runs[u] = 0) =>
               hook = Top(t).pre_hook

C17_Witness ==
    \E t \in live : \E u \in Others(t) :
        /\ ExitedOnAbort(t) /\ ExitedOnAbort(u)
        /\ Top(t).pre_hook = program.hook /\ Top(u).pre_hook = program.hook
        /\ Top(t).path = "handler_abort"
        /\ reported[t] = [hook |-> NoopHook(u, 1, 1), pay |-> Top(t).out]
        /\ hook.kind = "noop" /\ hook # program.hook

\* C18: in a sequence of top-level expansions on one thread, whenever the
\* thread is between expansions (or past the last one) the hook is the hook
\* that was installed before the first expansion, and the hook every expansion
\* saves is that hook, never a no-op an earlier expansion left behind.
C18_HookAcrossSequence ==
    \A t \in live :
        /\ stack[t] = <<>> => hook = program.hook
        /\ (stack[t] # <<>> /\ Top(t).pc # "take") =>
               /\ Top(t).old_hook = program.hook
               /\ Top(t).old_hook.kind # "noop"

\* The protected computation of some expansion of thread t is running.
Protected(t) == \E i \in DOMAIN stack[t] : stack[t][i].pc = "try"

\* The top frame of t has dealt, or is dealing, with the abort of a handler of
\* the expansion nested in it, and its own handlers have raised nothing since.
InnerHandlerAbort(t) ==
    /\ stack[t] # <<>>
    /\ Top(t).inner.path = "handler_abort"
    /\ \/ Top(t).pc \in {"match", "restore", "dispatch", "handler"}
       \/ Top(t).pc = "exit" /\ Top(t).path \in {"handled", "propagated"}

\* C19 as stated: while the protected computation of an outer expansion is
\* running, the hook is a silent no-op at every point.
C19_SilentAtEveryPoint ==
    \A t \in live : Protected(t) => hook.kind = "noop"

\* C19, amended: while the protected computation of an outer expansion is
\* running the hook is a silent no-op, whichever path a nested expansion left
\* by, except between the take_hook and the set_hook of a nested expansion,
\* where the default hook is installed; an abort raised by a handler of the
\* nested expansion is reported to the outer expansion's no-op and to nothing
\* else, in particular not to the hook installed before the outer expansion;
\* and when the outer expansion has left on an abort path the hook is the one
\* installed before it.
C19_NestedHookSilent ==
    \A t \in live :
        /\ Protected(t) =>
               IF Top(t).pc = "set" THEN hook = DefaultHook ELSE hook.kind = "noop"
        /\ InnerHandlerAbort(t) =>
               /\ reported[t] = [hook |-> OwnNoop(t), pay |-> Top(t).res]
               /\ reported[t].hook # Top(t).pre_hook
        /\ (Exited(t) /\ BodyErr(t) /\ Top(t).inner # NoInner) =>
               hook = Top(t).pre_hook

C19_Witness ==
    \E t \in live :
        /\ Exited(t) /\ Depth(t) = 1
        /\ Top(t).inner.path = "handler_abort"
        /\ Top(t).path = "handled"
        /\ Top(t).pre_hook = UserHook
        /\ reported[t].hook = OwnNoop(t)
        /\ hook = UserHook
====
